---------------------------- MODULE Spec2Model ----------------------------
(***************************************************************************)
(* Model of src/PCA.py: class Principal_component_analysis.                *)
(*                                                                         *)
(* Python strings are modelled as sequences of one-character strings, so   *)
(* that str.isalpha, str.isdigit, str.split("_"), str.lstrip("0"),         *)
(* str.strip, float() and the ordering used by sorted() are computed       *)
(* character by character, as Python computes them.                        *)
(***************************************************************************)
EXTENDS Integers, Sequences, FiniteSets, TLC

VARIABLES
    \* ---- the instance (Principal_component_analysis) and its process
    conformations,   \* self.conformations: name -> conformation dictionary
    keyOrder,        \* iteration (insertion) order of self.conformations
    pcaCoordsArray,  \* self.pcaCoordsArray: None or the rows of the array
    vars_data,       \* self.vars_data: None or metric name -> value list
    files,           \* image files present on disk
    pc,              \* "ready", "exit" (sys.exit) or the uncaught exception
    call,            \* the most recent method call and its arguments
    sortedConfNames, \* the local sortedConfNames of the most recent loop
    printed,         \* what the most recent call printed
    written,         \* the files the most recent call saved, in order
    figure,          \* None, or the figure the most recent call drew
    \* ---- one call of getPDBcoord on a file
    pdbLines,        \* the lines read from pdbPath
    resNumbers,      \* the residue filter
    outcome          \* None, or how the call on pdbLines ended

instVars == <<conformations, keyOrder, pcaCoordsArray, vars_data, files, pc,
              call, sortedConfNames, printed, written, figure>>
fileVars == <<pdbLines, resNumbers, outcome>>
vars == <<instVars, fileVars>>

\* Python's None, and a value that is not None
None == <<>>
Some(v) == <<v>>
Val(x) == x[1]

----------------------------------------------------------------------------
(* Python str, character by character *)

AlphaChars == {"A", "B", "C", "D", "E", "H", "L", "M", "O", "T", "a", "b"}
DigitChars == {"0", "1", "2", "3", "4", "5", "6", "7", "8", "9"}

\* ord(c) for the characters names are made of (ASCII code points)
Ord(c) ==
    CASE c = "0" -> 48 [] c = "1" -> 49 [] c = "2" -> 50 [] c = "9" -> 57
      [] c = "B" -> 66 [] c = "a" -> 97 [] c = "b" -> 98

DigitVal(c) ==
    CASE c = "0" -> 0 [] c = "1" -> 1 [] c = "2" -> 2 [] c = "3" -> 3
      [] c = "4" -> 4 [] c = "5" -> 5 [] c = "6" -> 6 [] c = "7" -> 7
      [] c = "8" -> 8 [] c = "9" -> 9

\* str.isalpha(): non-empty and every character a letter
isalpha(s) == Len(s) > 0 /\ \A i \in 1..Len(s) : s[i] \in AlphaChars

\* str.isdigit(): non-empty and every character a digit
isdigit(s) == Len(s) > 0 /\ \A i \in 1..Len(s) : s[i] \in DigitChars

\* s < t for Python strings: the first differing character decides, and a
\* proper prefix is smaller
RECURSIVE StrLess(_, _)
StrLess(s, t) ==
    IF Len(t) = 0 THEN FALSE
    ELSE IF Len(s) = 0 THEN TRUE
    ELSE IF Ord(Head(s)) < Ord(Head(t)) THEN TRUE
    ELSE IF Ord(Head(s)) > Ord(Head(t)) THEN FALSE
    ELSE StrLess(Tail(s), Tail(t))

\* x.split("_")[0]: the text before the first underscore
RECURSIVE SplitFirst(_)
SplitFirst(s) ==
    IF Len(s) = 0 \/ Head(s) = "_" THEN <<>>
    ELSE <<Head(s)>> \o SplitFirst(Tail(s))

\* s.lstrip("0")
RECURSIVE LStripZero(_)
LStripZero(s) ==
    IF Len(s) > 0 /\ Head(s) = "0" THEN LStripZero(Tail(s)) ELSE s

\* s.strip(): leading and trailing blanks removed
RECURSIVE LStripBlank(_)
LStripBlank(s) ==
    IF Len(s) > 0 /\ Head(s) = " " THEN LStripBlank(Tail(s)) ELSE s

RECURSIVE RStripBlank(_)
RStripBlank(s) ==
    IF Len(s) > 0 /\ s[Len(s)] = " "
    THEN RStripBlank(SubSeq(s, 1, Len(s) - 1)) ELSE s

strip(s) == RStripBlank(LStripBlank(s))

RECURSIVE DigitsValue(_)
DigitsValue(s) ==
    IF Len(s) = 0 THEN 0
    ELSE 10 * DigitsValue(SubSeq(s, 1, Len(s) - 1)) + DigitVal(s[Len(s)])

\* float(s) on the texts coordinate columns hold here: an optional minus
\* sign and digits give the number; anything else (a blank column) raises
\* ValueError
floatRaises(s) ==
    ~(isdigit(s) \/ (Len(s) > 1 /\ Head(s) = "-" /\ isdigit(Tail(s))))

float(s) ==
    IF isdigit(s) THEN DigitsValue(s) ELSE 0 - DigitsValue(Tail(s))

\* x in list
InList(x, list) == \E i \in 1..Len(list) : list[i] = x

----------------------------------------------------------------------------
(* getPDBcoord *)

ATOM == <<"A", "T", "O", "M">>
CA   == <<"C", "A">>

\* ll[k] with Python's zero-based index
Field(ll, k) == ll[k + 1]

UnrecognizedMsg == "Unrecognized pdb format, check number of columns. Exiting."

\* resColOf with the chain column taken for absent in every file
resColOf_NoChain(ll) == 4

\* isWanted without the test of the atom name
isWanted_AnyAtom(ll, resCol, resNums) == InList(Field(ll, resCol), resNums)

\* Lines 107-110: the residue column, once field 4 is known to be
\* alphabetic or numeric
resColOf(ll) == IF isalpha(Field(ll, 4)) THEN 5 ELSE 4

\* Line 117: the residue is in the filter and the atom is an alpha carbon
isWanted(ll, resCol, resNums) ==
    InList(Field(ll, resCol), resNums) /\ Field(ll, 2) = CA

\* One iteration of the loop over pdbLines. A line is its whitespace split
\* (ll) and the texts of its character columns 31-39, 39-47, 47-55.
\* Result: how the iteration ended and the coordinates it appended.
\* ll[4] and ll[resCol] raise IndexError on a line with too few fields.
LineStep(line, resNums) ==
    LET ll       == line.ll
        colCount == Len(ll)
        go(st, add) == [status |-> st, add |-> add]
    IN  IF ~(colCount > 1) THEN go("next", <<>>)
        ELSE IF Field(ll, 0) # ATOM THEN go("next", <<>>)
        ELSE IF colCount < 5 THEN go("IndexError", <<>>)
        ELSE IF ~isalpha(Field(ll, 4)) /\ ~isdigit(Field(ll, 4))
             THEN go("exit", <<>>)
        ELSE LET resCol == resColOf(ll)
             IN  IF colCount < resCol + 1 THEN go("IndexError", <<>>)
                 ELSE IF isWanted(ll, resCol, resNums)
                 THEN IF \E c \in {line.x, line.y, line.z} :
                              floatRaises(strip(c))
                      THEN go("ValueError", <<>>)
                      ELSE LET xCoord == float(strip(line.x))
                               yCoord == float(strip(line.y))
                               zCoord == float(strip(line.z))
                           IN  go("next", <<xCoord, yCoord, zCoord>>)
                 ELSE go("next", <<>>)

\* The loop from line i on, with confCoords accumulated so far. The result
\* records where the scan stopped: Len(lines) + 1 on return, else the line
\* that ended the run.
RECURSIVE ScanFrom(_, _, _, _)
ScanFrom(lines, resNums, i, confCoords) ==
    IF i > Len(lines)
    THEN [status |-> "return", coords |-> confCoords, line |-> i]
    ELSE LET r == LineStep(lines[i], resNums)
         IN  IF r.status = "next"
             THEN ScanFrom(lines, resNums, i + 1, confCoords \o r.add)
             ELSE [status |-> r.status, coords |-> <<>>, line |-> i]

getPDBcoord(lines, resNums) == ScanFrom(lines, resNums, 1, <<>>)

----------------------------------------------------------------------------
(* The structure files getPDBcoord is applied to *)

MaxLines == 3

HETATM == <<"H", "E", "T", "A", "T", "M">>
CB     == <<"C", "B">>
ALA    == <<"A", "L", "A">>
ChainA == <<"A">>
Blank  == <<" ", " ">>

\* A line whose coordinate columns hold the texts c[1], c[2], c[3]: the
\* coordinates are also the last whitespace-delimited fields of the line
PdbLine(head, c) ==
    [ll |-> head \o SelectSeq(<<strip(c[1]), strip(c[2]), strip(c[3])>>,
                              LAMBDA t : Len(t) > 0),
     x |-> c[1], y |-> c[2], z |-> c[3]]

LineSet ==
    { \* an empty line, and a line of one field
      PdbLine(<<>>, <<Blank, Blank, Blank>>),
      PdbLine(<<ATOM>>, <<Blank, Blank, Blank>>),
      \* a hetero-atom record
      PdbLine(<<HETATM, <<"7">>, CA, ALA, ChainA, <<"1">>>>,
              <<<<" ", "9">>, <<" ", "9">>, <<" ", "9">>>>),
      \* chain present: residue number in field 5
      PdbLine(<<ATOM, <<"1">>, CA, ALA, ChainA, <<"1">>>>,
              <<<<" ", "1">>, <<" ", "2">>, <<" ", "3">>>>),
      PdbLine(<<ATOM, <<"2">>, CB, ALA, ChainA, <<"1">>>>,
              <<<<" ", "7">>, <<" ", "7">>, <<" ", "7">>>>),
      PdbLine(<<ATOM, <<"3">>, CA, ALA, ChainA, <<"2">>>>,
              <<<<"4", " ">>, <<"-", "5">>, <<"1", "0">>>>),
      PdbLine(<<ATOM, <<"4">>, CA, ALA, ChainA, <<"-", "1">>>>,
              <<<<" ", "3">>, <<" ", "3">>, <<" ", "3">>>>),
      \* chain absent: residue number in field 4
      PdbLine(<<ATOM, <<"1">>, CA, ALA, <<"1">>>>,
              <<<<" ", "6">>, <<" ", "0">>, <<"-", "8">>>>),
      PdbLine(<<ATOM, <<"3">>, CA, ALA, <<"2">>>>,
              <<<<" ", "2">>, <<" ", "1">>, <<" ", "0">>>>),
      PdbLine(<<ATOM, <<"4">>, CA, ALA, <<"-", "1">>>>,
              <<<<" ", "3">>, <<" ", "3">>, <<" ", "3">>>>),
      \* field 4 neither alphabetic nor numeric
      PdbLine(<<ATOM, <<"1">>, CA, ALA, <<"A", "1">>>>,
              <<<<" ", "1">>, <<" ", "2">>, <<" ", "3">>>>),
      \* too few fields
      PdbLine(<<ATOM, <<"1">>, CA>>, <<Blank, Blank, Blank>>),
      PdbLine(<<ATOM, <<"1">>, CA, ALA, ChainA>>, <<Blank, Blank, Blank>>),
      \* coordinates outside their columns
      [ll |-> <<ATOM, <<"1">>, CA, ALA, ChainA, <<"1">>, <<"1">>, <<"2">>,
                <<"3">>>>,
       x |-> Blank, y |-> <<" ", "2">>, z |-> <<" ", "3">>] }

SeqsUpTo(S, n) == UNION { [1..k -> S] : k \in 0..n }

PdbFiles == SeqsUpTo(LineSet, MaxLines)

ResFilters ==
    { <<>>, << <<"1">> >>, << <<"2">>, <<"1">> >>, << <<"-", "1">>, <<"2">> >> }

\* No instance is in use
Idle ==
    /\ conformations = <<>> /\ keyOrder = <<>>
    /\ pcaCoordsArray = None /\ vars_data = None
    /\ files = {} /\ pc = "ready" /\ call = [op |-> "__init__"]
    /\ sortedConfNames = <<>> /\ printed = <<>> /\ written = <<>>
    /\ figure = None

InitExtract ==
    /\ pdbLines \in PdbFiles
    /\ resNumbers \in ResFilters
    /\ outcome = None
    /\ Idle

\* self.getPDBcoord(pdbPath, resNumbers) on the file read into pdbLines
CallGetPDBcoord ==
    /\ outcome = None
    /\ outcome' = Some(getPDBcoord(pdbLines, resNumbers))
    /\ UNCHANGED <<pdbLines, resNumbers, instVars>>

NextExtract == CallGetPDBcoord

SpecExtract == InitExtract /\ [][NextExtract]_vars

----------------------------------------------------------------------------
(* Claims about getPDBcoord, checked under SpecExtract *)

\* An ATOM line with more than one whitespace-delimited field
IsAtomRecord(line) == Len(line.ll) > 1 /\ Field(line.ll, 0) = ATOM

\* The column layout of an ATOM line is recognised: field 4 is alphabetic and
\* a field 5 follows it, or field 4 is numeric
Recognized(line) ==
    /\ Len(line.ll) >= 5
    /\ \/ isalpha(Field(line.ll, 4)) /\ Len(line.ll) >= 6
       \/ isdigit(Field(line.ll, 4))

\* The residue-number field of a recognised ATOM line
ResidueField(line) ==
    IF isalpha(Field(line.ll, 4)) THEN Field(line.ll, 5) ELSE Field(line.ll, 4)

\* The lines of a file that are ATOM lines of an alpha carbon whose residue
\* number is in the filter
MatchingLines(lines, resNums) ==
    { i \in 1..Len(lines) :
        /\ IsAtomRecord(lines[i])
        /\ Recognized(lines[i])
        /\ Field(lines[i].ll, 2) = CA
        /\ InList(ResidueField(lines[i]), resNums) }

Returned == outcome # None /\ Val(outcome).status = "return"

\* C2: when getPDBcoord returns, its result is exactly the x, y, z of every
\* ATOM line whose atom name is CA and whose residue number is in resNumbers,
\* in the order of the lines: three values for each matching line, nothing
\* else, and nothing at all when no line matches.
C2_ExactlyMatchingCoords ==
    Returned =>
        LET c == Val(outcome).coords
            M == MatchingLines(pdbLines, resNumbers)
        IN  /\ Len(c) = 3 * Cardinality(M)
            /\ \A i \in M :
                 LET k == Cardinality({j \in M : j <= i})
                 IN  /\ c[3 * k - 2] = float(strip(pdbLines[i].x))
                     /\ c[3 * k - 1] = float(strip(pdbLines[i].y))
                     /\ c[3 * k]     = float(strip(pdbLines[i].z))

\* Two lines match, in a file that also holds an ATOM line that does not
C2_Witness ==
    /\ Returned
    /\ Cardinality(MatchingLines(pdbLines, resNumbers)) = 2
    /\ Len(Val(outcome).coords) = 6
    /\ Val(outcome).coords[1] # Val(outcome).coords[4]

\* Every ATOM line of the file is written with a chain identifier
ChainPresentLayout(lines) ==
    \A i \in 1..Len(lines) :
        IsAtomRecord(lines[i]) =>
            Len(lines[i].ll) >= 6 /\ isalpha(Field(lines[i].ll, 4))

\* The same file written without the chain identifier: field 4 of every ATOM
\* line left out, the coordinate columns unchanged
WithoutChain(lines) ==
    [i \in 1..Len(lines) |->
        IF IsAtomRecord(lines[i])
        THEN [lines[i] EXCEPT !.ll = SubSeq(@, 1, 4) \o SubSeq(@, 6, Len(@))]
        ELSE lines[i]]

\* Every residue number of the file consists of decimal digits only
NumericResidues(lines) ==
    \A i \in 1..Len(lines) :
        IsAtomRecord(lines[i]) => isdigit(Field(lines[i].ll, 5))

\* C3 as stated: a file in the chain-present layout and the same file in the
\* chain-absent layout give the same coordinate sequence under the same
\* residue filter.
C3_Original ==
    (outcome # None /\ ChainPresentLayout(pdbLines)) =>
        Val(outcome) = getPDBcoord(WithoutChain(pdbLines), resNumbers)

\* C3 amended: a file in the chain-present layout whose residue numbers
\* consist of decimal digits only, and the same file in the chain-absent
\* layout, give the same result under the same residue filter.
C3_SameWithoutChain ==
    (outcome # None /\ ChainPresentLayout(pdbLines)
                    /\ NumericResidues(pdbLines)) =>
        Val(outcome) = getPDBcoord(WithoutChain(pdbLines), resNumbers)

\* Two alpha carbons are extracted from a file with chain identifiers
C3_Witness ==
    /\ Returned
    /\ ChainPresentLayout(pdbLines) /\ NumericResidues(pdbLines)
    /\ \E i \in 1..Len(pdbLines) : IsAtomRecord(pdbLines[i])
    /\ Len(Val(outcome).coords) = 6
    /\ getPDBcoord(WithoutChain(pdbLines), resNumbers).status = "return"

\* C6 as stated: the scan of a file never gets past an ATOM line (of more
\* than one field) whose layout is not recognised, too few fields included:
\* the run ends there with the 'Unrecognized pdb format' diagnostic, and no
\* coordinate vector is returned.
C6_Original ==
    outcome # None =>
        \A i \in 1..Len(pdbLines) :
            (IsAtomRecord(pdbLines[i]) /\ ~Recognized(pdbLines[i])) =>
                /\ Val(outcome).status # "return"
                /\ Val(outcome).line <= i
                /\ Val(outcome).line = i => Val(outcome).status = "exit"

----------------------------------------------------------------------------
(* The conformations an instance is constructed with *)

MaxConfs == 2

NameSet == { <<"a">>, <<"B">>, <<"a", "b">> }

\* open(pdbPath).readlines(): the structure files on disk
ReadLines(pdbPath) ==
    CASE pdbPath = "with_chain.pdb" ->
           << PdbLine(<<ATOM, <<"1">>, CA, ALA, ChainA, <<"1">>>>,
                      <<<<" ", "1">>, <<" ", "2">>, <<" ", "3">>>>),
              PdbLine(<<ATOM, <<"2">>, CB, ALA, ChainA, <<"1">>>>,
                      <<<<" ", "7">>, <<" ", "7">>, <<" ", "7">>>>),
              PdbLine(<<ATOM, <<"3">>, CA, ALA, ChainA, <<"2">>>>,
                      <<<<"4", " ">>, <<"-", "5">>, <<"1", "0">>>>) >>
      [] pdbPath = "no_chain.pdb" ->
           << PdbLine(<<HETATM, <<"7">>, CA, ALA, ChainA, <<"2">>>>,
                      <<<<" ", "9">>, <<" ", "9">>, <<" ", "9">>>>),
              PdbLine(<<ATOM, <<"1">>, CA, ALA, <<"1">>>>,
                      <<<<" ", "6">>, <<" ", "0">>, <<"-", "8">>>>) >>
      [] pdbPath = "odd_column.pdb" ->
           << PdbLine(<<ATOM, <<"1">>, CA, ALA, <<"A", "1">>>>,
                      <<<<" ", "1">>, <<" ", "2">>, <<" ", "3">>>>) >>
      [] pdbPath = "no_atoms.pdb" ->
           << PdbLine(<<>>, <<Blank, Blank, Blank>>),
              PdbLine(<<ATOM>>, <<Blank, Blank, Blank>>) >>

\* Residue identifiers <number>_<suffix>, as the complex returns them
Res001 == <<"0", "0", "1", "_", "A">>
Res002 == <<"0", "0", "2", "_", "A">>
Res1   == <<"1", "_", "A">>
Res2   == <<"2", "_", "A">>

\* Conformation dictionaries: 'path', 'complex' and the metrics present
ConfPool ==
    { [path |-> "with_chain.pdb",
       complex |-> [consensus |-> <<Res001>>, residues |-> <<Res001, Res002>>],
       tanimoto |-> 1, jaccard |-> 0],
      [path |-> "no_chain.pdb",
       complex |-> [consensus |-> <<Res1>>, residues |-> <<Res1, Res2>>],
       tanimoto |-> 0],
      [path |-> "odd_column.pdb",
       complex |-> [consensus |-> <<Res1>>, residues |-> <<Res1>>],
       tanimoto |-> 1, jaccard |-> 1],
      [path |-> "no_atoms.pdb",
       complex |-> [consensus |-> <<Res1>>, residues |-> <<Res1, Res2>>],
       tanimoto |-> 0, jaccard |-> 1] }

Range(f) == { f[i] : i \in DOMAIN f }

\* The orders in which up to MaxConfs distinct names were inserted
KeyOrders ==
    { o \in SeqsUpTo(NameSet, MaxConfs) :
        \A i, j \in 1..Len(o) : i # j => o[i] # o[j] }

MetricArgs == {"tanimoto", "jaccard"}
DimArgs == {1, 2, 3}
ProjArgs == {"proj"}

----------------------------------------------------------------------------
(* makePCAcoords *)

\* sorted(): insertion of each key before the first greater one
RECURSIVE InsertSorted(_, _)
InsertSorted(x, s) ==
    IF Len(s) = 0 THEN <<x>>
    ELSE IF StrLess(x, Head(s)) THEN <<x>> \o s
    ELSE <<Head(s)>> \o InsertSorted(x, Tail(s))

\* sorted() that returns the keys in their iteration order
sorted_Unsorted(keys) == keys

RECURSIVE sorted(_)
sorted(keys) ==
    IF Len(keys) = 0 THEN <<>>
    ELSE InsertSorted(Head(keys), sorted(Tail(keys)))

\* Lines 48-52: the residue list the flag selects
resListOf(conformationDict, consensusResidues) ==
    IF consensusResidues THEN conformationDict["complex"].consensus
    ELSE conformationDict["complex"].residues

\* Line 55: [x.split("_")[0].lstrip("0") for x in resList]
resNumbersOf(resList) ==
    [i \in 1..Len(resList) |-> LStripZero(SplitFirst(resList[i]))]

\* Lines 42-61: the loop over sortedConfNames from position i on, with
\* allConfCoords collected so far; it ends where getPDBcoord ends the run
RECURSIVE CollectCoords(_, _, _, _, _)
CollectCoords(confs, names, consensusResidues, i, allConfCoords) ==
    IF i > Len(names)
    THEN [status |-> "done", rows |-> allConfCoords]
    ELSE LET conformationDict == confs[names[i]]
             resList == resListOf(conformationDict, consensusResidues)
             got == getPDBcoord(ReadLines(conformationDict["path"]),
                                resNumbersOf(resList))
         IN  IF got.status = "return"
             THEN CollectCoords(confs, names, consensusResidues, i + 1,
                                Append(allConfCoords, got.coords))
             ELSE [status |-> got.status, rows |-> allConfCoords]

\* allEmpty that never reports an empty batch
allEmpty_Never(rows) == FALSE

\* Lines 70-71: not all(len(x) == len(array[0]) for x in array)
lengthsDiffer(rows) ==
    ~(\A i \in 1..Len(rows) : Len(rows[i]) = Len(rows[1]))

\* Line 80: all(x.size == 0 for x in array)
allEmpty(rows) == \A i \in 1..Len(rows) : Len(rows[i]) = 0

Say(text, args) == [text |-> text, args |-> args]

DifferMsg == "Number of coordinates not identical amongst conformations"
EmptyMsg  == "No coordinates were passed to the PCA plotting function. Exiting."

\* Lines 72-76: the messages of the consistency error
LengthReport(names, rows) ==
    <<Say(DifferMsg, <<>>)>>
    \o [i \in 1..Len(rows) |-> Say("length", <<names[i], Len(rows[i])>>)]
    \o <<Say("Exiting.", <<>>)>>

makePCAcoords(consensusResidues) ==
    /\ pc = "ready"
    /\ LET names == sorted(keyOrder)
           got   == CollectCoords(conformations, names, consensusResidues,
                                  1, <<>>)
       IN  /\ sortedConfNames' = names
           /\ call' = [op |-> "makePCAcoords",
                       consensusResidues |-> consensusResidues]
           /\ IF got.status # "done"
              THEN \* getPDBcoord ended the run (sys.exit or an exception)
                   /\ pc' = got.status
                   /\ printed' = IF got.status = "exit"
                                 THEN <<Say(UnrecognizedMsg, <<>>)>>
                                 ELSE <<>>
                   /\ UNCHANGED pcaCoordsArray
              ELSE /\ pcaCoordsArray' = Some(got.rows)
                   /\ IF lengthsDiffer(got.rows)
                      THEN /\ printed' = LengthReport(names, got.rows)
                           /\ pc' = "exit"
                      ELSE IF allEmpty(got.rows)
                      THEN /\ printed' = <<Say(EmptyMsg, <<>>)>>
                           /\ pc' = "exit"
                      ELSE /\ printed' = <<>>
                           /\ pc' = "ready"
    /\ written' = <<>>
    /\ figure' = None
    /\ UNCHANGED <<conformations, keyOrder, vars_data, files, fileVars>>

----------------------------------------------------------------------------
(* makePCAmetric *)

\* A table that keeps the metrics of earlier calls
freshTable_Keep(old, metric) ==
    IF old = None THEN [m \in {metric} |-> <<>>]
    ELSE [m \in DOMAIN Val(old) \cup {metric} |-> <<>>]

\* Lines 134-135: self.vars_data = {}; self.vars_data[metric] = []
freshTable(old, metric) == [m \in {metric} |-> <<>>]

\* Lines 141-150: the loop over sortedConfNames from position i on. Every
\* variable of the table gets the value of the conformation; a conformation
\* without one of them raises KeyError and leaves the table as it is then.
RECURSIVE CollectMetric(_, _, _, _)
CollectMetric(confs, names, i, table) ==
    IF i > Len(names)
    THEN [status |-> "done", table |-> table]
    ELSE LET conformationDict == confs[names[i]]
         IN  IF \E varName \in DOMAIN table :
                    varName \notin DOMAIN conformationDict
             THEN [status |-> "KeyError", table |-> table]
             ELSE CollectMetric(confs, names, i + 1,
                    [varName \in DOMAIN table |->
                        Append(table[varName], conformationDict[varName])])

makePCAmetric(metric) ==
    /\ pc = "ready"
    /\ LET names == sorted(keyOrder)
           got   == CollectMetric(conformations, names, 1,
                                  freshTable(vars_data, metric))
       IN  /\ sortedConfNames' = names
           /\ vars_data' = Some(got.table)
           /\ pc' = IF got.status = "done" THEN "ready" ELSE got.status
    /\ call' = [op |-> "makePCAmetric", metric |-> metric]
    /\ printed' = <<>>
    /\ written' = <<>>
    /\ figure' = None
    /\ UNCHANGED <<conformations, keyOrder, pcaCoordsArray, files, fileVars>>

----------------------------------------------------------------------------
(* Rendering: pcaSubplot_vars and pcaSubplot *)

VMin == 0
VMax == 1

Min2(a, b) == IF a < b THEN a ELSE b

Indices(n) == [i \in 1..n |-> i]

\* ax.scatter(...): the points drawn, their marker, their colour ("cmap"
\* when coloured from c through the colour map) and the colour scale
Scatter(points, marker, color, c, norm) ==
    [points |-> points, marker |-> marker, color |-> color, c |-> c,
     norm |-> norm]

\* Lines 282-284 and 319-323: 2D figures annotate every point, 3D figures
\* the points whose label is not the empty string
Annotations(dim, labels, X_r) ==
    LET both == Indices(Min2(Len(labels), Len(X_r)))
        kept == IF dim = 3
                THEN SelectSeq(both, LAMBDA i : labels[i] # <<>>)
                ELSE both
    IN  [k \in 1..Len(kept) |-> <<labels[kept[k]], X_r[kept[k]]>>]

\* Lines 249-259: zip(labels, varData, X_r) split into templates and
\* general conformations
SplitTemplates(X_r, varData, labels, template_list) ==
    LET zipped == Indices(Min2(Len(labels), Min2(Len(varData), Len(X_r))))
        tpl    == SelectSeq(zipped, LAMBDA i : labels[i] \in template_list)
        conf   == SelectSeq(zipped, LAMBDA i : labels[i] \notin template_list)
    IN  [templatePosition |-> [k \in 1..Len(tpl) |-> X_r[tpl[k]]],
         confData         |-> [k \in 1..Len(conf) |-> varData[conf[k]]],
         confPosition     |-> [k \in 1..Len(conf) |-> X_r[conf[k]]]]

\* Called with dim 2 or 3. np.array of an empty list has one dimension, so
\* confPosition[:, 0] or templatePosition[:, 0] raises IndexError when the
\* group is empty.
pcaSubplot_vars(X_r, dim, varData, varName, labels, template_list) ==
    LET g == SplitTemplates(X_r, varData, labels, template_list)
    IN  IF Len(g.confPosition) = 0 \/ Len(g.templatePosition) = 0
        THEN [status |-> "IndexError"]
        ELSE [status |-> "drawn",
              fn |-> "pcaSubplot_vars",
              title |-> IF dim = 2 THEN "PCA 2D" ELSE "PCA 3D",
              scatters |->
                << Scatter(g.confPosition, "o", "cmap", g.confData,
                           <<VMin, VMax>>),
                   Scatter(g.templatePosition, "v", "black", <<>>, <<>>) >>,
              annotations |-> Annotations(dim, labels, X_r),
              colorbar |-> Some(varName)]

\* Called with dim 2 or 3: one scatter of all the points, template_list is
\* not read
pcaSubplot(X_r, dim, labels, template_list) ==
    [status |-> "drawn",
     fn |-> "pcaSubplot",
     title |-> IF dim = 2 THEN "PCA 2D" ELSE "PCA 3D",
     scatters |->
        IF dim = 2 THEN << Scatter(X_r, "v", "black", <<>>, <<>>) >>
        ELSE << Scatter(X_r, "o", "default", <<>>, <<>>) >>,
     annotations |-> Annotations(dim, labels, X_r),
     colorbar |-> None]

----------------------------------------------------------------------------
(* plotPCAfig *)

\* pca.fit(array).transform(array): the decomposition is the library's; it
\* gives one point of dim components for each row of the array
PCAtransform(rows, dim) ==
    [i \in 1..Len(rows) |-> [row |-> i, components |-> dim]]

\* plt.savefig with the names of the three-dimensional figure for every dim
savedFiles_Always3D(projName, dim) ==
    << <<projName, "_PCA3D.svg">>, <<projName, "_PCA3D.png">> >>

\* Lines 214-216 and 227-229: the files saved for dim 2 and dim 3
savedFiles(projName, dim) ==
    IF dim = 2 THEN << <<projName, "_PCA.svg">>, <<projName, "_PCA.png">> >>
    ELSE << <<projName, "_PCA3D.svg">>, <<projName, "_PCA3D.png">> >>

\* Lines 190-195
varAxisOf(metric) ==
    IF metric = "tanimoto" THEN "Tanimoto coefficient"
    ELSE IF metric = "jaccard" THEN "Jaccard distance"
    ELSE metric

GuidanceMsgs ==
    << Say("The coords onto which apply the PCA have to be extracted", <<>>),
       Say("First run initPCA() then generateProtCoords()", <<>>) >>

VarianceMsgs(dim) ==
    << Say("Explained variance ratio", <<dim>>),
       Say("PCs rounded at 2 decimals", <<>>) >>

\* Lines 197-198: format() is applied to the second literal only
MissingMsg == Say("The variable {} is not in the loaded set", <<>>)

plotPCAfig(projName, metric, labels, dim, templates) ==
    /\ pc = "ready"
    /\ call' = [op |-> "plotPCAfig", projName |-> projName,
                metric |-> metric, labels |-> labels, dim |-> dim,
                templates |-> templates]
    /\ IF pcaCoordsArray = None
       THEN /\ printed' = GuidanceMsgs
            /\ written' = <<>>
            /\ figure' = None
            /\ UNCHANGED <<pc, files>>
       ELSE LET X_r == PCAtransform(Val(pcaCoordsArray), dim)
                \* lines 186-201: var_data is assigned unless the table
                \* exists and lacks the metric
                assigned == vars_data = None
                            \/ metric \in DOMAIN Val(vars_data)
                var_data == IF vars_data = None THEN None
                            ELSE Some(Val(vars_data)[metric])
                var_axis == varAxisOf(metric)
                truthy   == var_data # None /\ Len(Val(var_data)) > 0
                fig      == IF truthy
                            THEN pcaSubplot_vars(X_r, dim, Val(var_data),
                                                 var_axis, labels, templates)
                            ELSE pcaSubplot(X_r, dim, labels, templates)
            IN  /\ printed' = VarianceMsgs(dim)
                               \o (IF assigned THEN <<>> ELSE <<MissingMsg>>)
                /\ IF dim \notin {2, 3}
                   THEN /\ written' = <<>>
                        /\ figure' = None
                        /\ UNCHANGED <<pc, files>>
                   ELSE IF ~assigned
                   THEN \* "if var_data:" reads a local never assigned
                        /\ pc' = "UnboundLocalError"
                        /\ written' = <<>>
                        /\ figure' = None
                        /\ UNCHANGED files
                   ELSE IF fig.status # "drawn"
                   THEN /\ pc' = fig.status
                        /\ written' = <<>>
                        /\ figure' = None
                        /\ UNCHANGED files
                   ELSE /\ figure' = Some(fig)
                        /\ written' = savedFiles(projName, dim)
                        /\ files' = files \cup Range(savedFiles(projName, dim))
                        /\ UNCHANGED pc
    /\ UNCHANGED <<conformations, keyOrder, pcaCoordsArray, vars_data,
                   sortedConfNames, fileVars>>

----------------------------------------------------------------------------
(* The instance and the calls made on it *)

\* The labels passed for the conformations: their names
LabelArgs(names) == {names}

TemplateArgs(names) == SUBSET Range(names)

Init ==
    /\ keyOrder \in KeyOrders
    /\ conformations \in [Range(keyOrder) -> ConfPool]
    /\ pcaCoordsArray = None
    /\ vars_data = None
    /\ files = {}
    /\ pc = "ready"
    /\ call = [op |-> "__init__"]
    /\ sortedConfNames = <<>>
    /\ printed = <<>>
    /\ written = <<>>
    /\ figure = None
    /\ pdbLines = <<>> /\ resNumbers = <<>> /\ outcome = None

Next ==
    \/ \E consensusResidues \in BOOLEAN : makePCAcoords(consensusResidues)
    \/ \E metric \in MetricArgs : makePCAmetric(metric)
    \/ \E projName \in ProjArgs, metric \in MetricArgs, dim \in DimArgs,
          labels \in LabelArgs(sorted(keyOrder)),
          templates \in TemplateArgs(sorted(keyOrder)) :
            plotPCAfig(projName, metric, labels, dim, templates)

Spec == Init /\ [][Next]_vars

----------------------------------------------------------------------------
(* Claims about the instance, checked under Spec *)

Keys == Range(keyOrder)

\* The i-th conformation name in lexicographic order: the name with exactly
\* i - 1 smaller names
RankedName(i) ==
    CHOOSE n \in Keys : Cardinality({m \in Keys : StrLess(m, n)}) = i - 1

RankedNames == [i \in 1..Cardinality(Keys) |-> RankedName(i)]

\* What getPDBcoord gives for the conformation of a name
ExtractOf(name, consensusResidues) ==
    getPDBcoord(ReadLines(conformations[name]["path"]),
                resNumbersOf(resListOf(conformations[name],
                                       consensusResidues)))

\* C1: whatever the iteration order of the mapping, makePCAcoords and
\* makePCAmetric go through the conformations in the lexicographic order of
\* their names: row i of the feature matrix and entry i of every metric
\* sequence belong to the i-th name of that order.
C1_SortedAlignment ==
    /\ call.op \in {"makePCAcoords", "makePCAmetric"} =>
           sortedConfNames = RankedNames
    /\ (pc = "ready" /\ pcaCoordsArray # None) =>
           \E consensusResidues \in BOOLEAN :
               Val(pcaCoordsArray) =
                   [i \in 1..Cardinality(Keys) |->
                       ExtractOf(RankedName(i), consensusResidues).coords]
    /\ (pc = "ready" /\ vars_data # None) =>
           \A m \in DOMAIN Val(vars_data) :
               Val(vars_data)[m] =
                   [i \in 1..Cardinality(Keys) |->
                       conformations[RankedName(i)][m]]

\* Matrix and metric are both stored for two conformations that were not
\* inserted in sorted order and differ in their coordinates and their metric
C1_Witness ==
    /\ pc = "ready" /\ pcaCoordsArray # None /\ vars_data # None
    /\ Len(keyOrder) = 2 /\ keyOrder # RankedNames
    /\ Val(pcaCoordsArray)[1] # Val(pcaCoordsArray)[2]
    /\ \E m \in DOMAIN Val(vars_data) :
           Val(vars_data)[m][1] # Val(vars_data)[m][2]

\* C5: makePCAcoords classifies a batch whose files were all read by the
\* lengths of its feature vectors: lengths that differ end the run with the
\* consistency error after the length of each conformation is reported;
\* equal lengths that are all zero end it with the emptiness error; any
\* other batch completes and leaves the feature matrix stored.
C5_BatchClassified ==
    call.op = "makePCAcoords" =>
        LET n == Cardinality(Keys)
            vec(i) == ExtractOf(RankedName(i), call.consensusResidues)
        IN  (\A i \in 1..n : vec(i).status = "return") =>
              IF \E i, j \in 1..n : Len(vec(i).coords) # Len(vec(j).coords)
              THEN /\ pc = "exit"
                   /\ Len(printed) = n + 2
                   /\ printed[1].text = DifferMsg
                   /\ \A i \in 1..n :
                        printed[i + 1].args
                            = <<RankedName(i), Len(vec(i).coords)>>
              ELSE IF \A i \in 1..n : Len(vec(i).coords) = 0
              THEN /\ pc = "exit"
                   /\ printed = <<Say(EmptyMsg, <<>>)>>
              ELSE /\ pc = "ready"
                   /\ printed = <<>>
                   /\ pcaCoordsArray = Some([i \in 1..n |-> vec(i).coords])

\* A batch of two conformations with vectors of different lengths
C5_Witness ==
    /\ call.op = "makePCAcoords" /\ pc = "exit"
    /\ Len(printed) = 4 /\ printed[1].text = DifferMsg
    /\ printed[2].args[2] # printed[3].args[2]

\* C8: a makePCAmetric call that completes leaves a table of exactly one
\* metric name, the one it was called with, holding one value for each
\* conformation in sorted-name order; no other call changes the table.
C8_OneMetric ==
    [][ /\ (call'.op = "makePCAmetric" /\ pc' = "ready") =>
              /\ vars_data' # None
              /\ DOMAIN Val(vars_data') = {call'.metric}
              /\ Val(vars_data')[call'.metric] =
                     [i \in 1..Cardinality(Keys) |->
                         conformations[RankedName(i)][call'.metric]]
        /\ call'.op # "makePCAmetric" => vars_data' = vars_data ]_vars

\* The table holds jaccard alone, for two conformations, on an instance that
\* has already plotted
C8_Witness ==
    /\ call.op = "makePCAmetric" /\ call.metric = "jaccard" /\ pc = "ready"
    /\ DOMAIN Val(vars_data) = {"jaccard"}
    /\ Len(Val(vars_data)["jaccard"]) = 2
    /\ files # {}

\* The names of the image files of a project for a dimensionality
ImageNames(projName, dim) ==
    IF dim = 2 THEN << <<projName, "_PCA.svg">>, <<projName, "_PCA.png">> >>
    ELSE IF dim = 3
    THEN << <<projName, "_PCA3D.svg">>, <<projName, "_PCA3D.png">> >>
    ELSE <<>>

PlotOfMatrix ==
    /\ call.op = "plotPCAfig"
    /\ pcaCoordsArray # None
    /\ Len(Val(pcaCoordsArray)) >= call.dim

\* The metric table exists and lacks the metric of the most recent plot
MetricMissing ==
    /\ PlotOfMatrix
    /\ vars_data # None
    /\ call.metric \notin DOMAIN Val(vars_data)

\* C4 as stated: plotting a metric that the collected table lacks prints a
\* warning and goes on without colour mapping: the call does not fail, the
\* uncoloured rendering is used and the image files of the requested
\* dimensionality are written.
C4_Original ==
    MetricMissing =>
        /\ pc = "ready"
        /\ \E k \in 1..Len(printed) : printed[k] = MissingMsg
        /\ call.dim \in {2, 3} =>
              /\ figure # None /\ Val(figure).fn = "pcaSubplot"
              /\ written = ImageNames(call.projName, call.dim)

\* The metric of the most recent plot is in the table (a metric is supplied)
MetricSupplied ==
    /\ vars_data # None
    /\ call.metric \in DOMAIN Val(vars_data)
    /\ Len(Val(vars_data)[call.metric]) > 0

\* C7 as stated: in every rendering a point whose label is a template is
\* drawn with the template marker and colour ("v", black), and any other
\* point with a different marker, coloured by its own metric value on the
\* scale [0.0, 1.0] when a metric is supplied and uniformly otherwise.
C7_Original ==
    (PlotOfMatrix /\ figure # None) =>
        \A i \in 1..Len(call.labels) :
            LET point == PCAtransform(Val(pcaCoordsArray), call.dim)[i]
                drawn == { <<k, j>> \in (1..Len(Val(figure).scatters))
                                        \X (1..Len(call.labels)) :
                             /\ j <= Len(Val(figure).scatters[k].points)
                             /\ Val(figure).scatters[k].points[j] = point }
            IN  /\ Cardinality(drawn) = 1
                /\ \A d \in drawn :
                     LET sc == Val(figure).scatters[d[1]]
                     IN  IF call.labels[i] \in call.templates
                         THEN sc.marker = "v" /\ sc.color = "black"
                         ELSE /\ sc.marker # "v"
                              /\ IF MetricSupplied
                                 THEN /\ sc.color = "cmap"
                                      /\ sc.norm = <<VMin, VMax>>
                                      /\ sc.c[d[2]] =
                                           Val(vars_data)[call.metric][i]
                                 ELSE sc.c = <<>>

\* C10 as stated: with a metric supplied, the points are split into a
\* template group and a colour-mapped group, every point in exactly one of
\* them, and the rendering completes for every template set, the empty one
\* and the one holding every label included.
C10_Original ==
    (PlotOfMatrix /\ MetricSupplied /\ call.dim \in {2, 3}) =>
        /\ pc = "ready"
        /\ figure # None
        /\ Val(figure).fn = "pcaSubplot_vars"
        /\ LET conf == Val(figure).scatters[1].points
               tpl  == Val(figure).scatters[2].points
               X_r  == PCAtransform(Val(pcaCoordsArray), call.dim)
           IN  /\ Len(conf) + Len(tpl) = Len(call.labels)
               /\ \A i \in 1..Len(call.labels) :
                    IF call.labels[i] \in call.templates
                    THEN X_r[i] \in Range(tpl) /\ X_r[i] \notin Range(conf)
                    ELSE X_r[i] \in Range(conf) /\ X_r[i] \notin Range(tpl)

=============================================================================
